---- MODULE Spec2Model ----
(***************************************************************************)
(* Model of the rumorshub/http plugin: listener factory, HTTP and HTTPS    *)
(* servers, middleware assembly, and the plugin's Serve / Stop /           *)
(* ServeHTTP / Collects orchestration.                                     *)
(*                                                                         *)
(* Strings the code parses are sequences of one-character strings, so      *)
(* that splitting and parsing are computed as the code computes them.      *)
(***************************************************************************)
EXTENDS Integers, Sequences, FiniteSets, TLC

\* ------------------------------------------------------------------------
\* Bounds of the model
\* ------------------------------------------------------------------------
MaxOrder == 2
MaxReq == 2
MaxStopCalls == 2
MaxLate == 1
MaxHReq == 2
MaxOps == 2

\* ------------------------------------------------------------------------
\* String helpers (strings.Split, strings.Index, byte search)
\* ------------------------------------------------------------------------
HasPrefixAt(s, i, sep) ==
    /\ i + Len(sep) - 1 <= Len(s)
    /\ \A k \in 1..Len(sep) : s[i + k - 1] = sep[k]

\* 1-based index of the first occurrence of sep in s, 0 when absent
Index(s, sep) ==
    IF \E i \in 1..Len(s) : HasPrefixAt(s, i, sep)
    THEN CHOOSE i \in 1..Len(s) :
            /\ HasPrefixAt(s, i, sep)
            /\ \A j \in 1..(i - 1) : ~HasPrefixAt(s, j, sep)
    ELSE 0

IndexByte(s, c) == Index(s, <<c>>)

LastIndexByte(s, c) ==
    IF \E i \in 1..Len(s) : s[i] = c
    THEN CHOOSE i \in 1..Len(s) :
            /\ s[i] = c
            /\ \A j \in (i + 1)..Len(s) : s[j] # c
    ELSE 0

Tail0(s, n) == SubSeq(s, n + 1, Len(s))

RECURSIVE Split(_, _)
Split(s, sep) ==
    LET m == Index(s, sep) IN
    IF m = 0 THEN <<s>>
    ELSE <<SubSeq(s, 1, m - 1)>> \o Split(Tail0(s, m + Len(sep) - 1), sep)

SchemeSep == <<":", "/", "/">>

\* ------------------------------------------------------------------------
\* net.SplitHostPort, net.ParseIP, IP.To4 as createTCPListener uses them
\* ------------------------------------------------------------------------
DecChars == <<"0", "1", "2", "3", "4", "5", "6", "7", "8", "9">>
HexLower == <<"0", "1", "2", "3", "4", "5", "6", "7", "8", "9",
              "a", "b", "c", "d", "e", "f">>
HexUpper == <<"0", "1", "2", "3", "4", "5", "6", "7", "8", "9",
              "A", "B", "C", "D", "E", "F">>

IsDec(c) == \E k \in 1..10 : DecChars[k] = c
IsHex(c) == \E k \in 1..16 : HexLower[k] = c \/ HexUpper[k] = c
DecVal(c) == (CHOOSE k \in 1..10 : DecChars[k] = c) - 1
HexVal(c) == (CHOOSE k \in 1..16 : HexLower[k] = c \/ HexUpper[k] = c) - 1

SplitHostPort(hostport) ==
    LET i == LastIndexByte(hostport, ":")
        bad == [ok |-> FALSE, host |-> <<>>, port |-> <<>>]
    IN
    IF i = 0 THEN bad
    ELSE IF hostport[1] = "["
    THEN LET end == IndexByte(hostport, "]") IN
         IF end = 0 THEN bad
         ELSE IF end = Len(hostport) THEN bad
         ELSE IF end + 1 # i THEN bad
         ELSE IF IndexByte(Tail0(hostport, 1), "[") # 0 THEN bad
         ELSE IF IndexByte(Tail0(hostport, end), "]") # 0 THEN bad
         ELSE [ok |-> TRUE,
               host |-> SubSeq(hostport, 2, end - 1),
               port |-> Tail0(hostport, i)]
    ELSE LET host == SubSeq(hostport, 1, i - 1) IN
         IF IndexByte(host, ":") # 0 THEN bad
         ELSE IF IndexByte(hostport, "[") # 0 THEN bad
         ELSE IF IndexByte(hostport, "]") # 0 THEN bad
         ELSE [ok |-> TRUE, host |-> host, port |-> Tail0(hostport, i)]

NoBytes == [ok |-> FALSE, b |-> <<>>]

\* netip.parseIPv4: the loop over the characters of s
RECURSIVE V4Loop(_, _, _, _, _, _)
V4Loop(s, i, val, pos, digLen, fields) ==
    IF i > Len(s)
    THEN IF pos < 3 THEN NoBytes
         ELSE [ok |-> TRUE, b |-> Append(fields, val)]
    ELSE IF IsDec(s[i])
    THEN IF digLen = 1 /\ val = 0 THEN NoBytes
         ELSE LET v == val * 10 + DecVal(s[i]) IN
              IF v > 255 THEN NoBytes
              ELSE V4Loop(s, i + 1, v, pos, digLen + 1, fields)
    ELSE IF s[i] = "."
    THEN IF i = 1 \/ i = Len(s) \/ s[i - 1] = "." THEN NoBytes
         ELSE IF pos = 3 THEN NoBytes
         ELSE V4Loop(s, i + 1, 0, pos + 1, 0, Append(fields, val))
    ELSE NoBytes

parseIPv4(s) == V4Loop(s, 1, 0, 0, 0, <<>>)

\* the hex group at the head of s: number of characters read and value
\* (ok is FALSE when the group has more than four digits or its value
\* passes 16 bits)
RECURSIVE HexRun(_, _, _)
HexRun(s, off, acc) ==
    IF off < Len(s) /\ IsHex(s[off + 1])
    THEN LET a == acc * 16 + HexVal(s[off + 1]) IN
         IF off > 3 THEN [ok |-> FALSE, off |-> off, acc |-> a]
         ELSE IF a > 65535 THEN [ok |-> FALSE, off |-> off, acc |-> a]
         ELSE HexRun(s, off + 1, a)
    ELSE [ok |-> TRUE, off |-> off, acc |-> acc]

Zeros(n) == [k \in 1..n |-> 0]

V6Fail == [ok |-> FALSE, s |-> <<>>, ip |-> <<>>, ellipsis |-> -1]

\* netip.parseIPv6: the group loop; ip holds the bytes written so far
\* (i = Len(ip)), ellipsis the byte position of "::" or -1
RECURSIVE V6Loop(_, _, _)
V6Loop(s, ip, ellipsis) ==
    LET i == Len(ip) IN
    IF i >= 16 THEN [ok |-> TRUE, s |-> s, ip |-> ip, ellipsis |-> ellipsis]
    ELSE
    LET h == HexRun(s, 0, 0) IN
    IF ~h.ok THEN V6Fail
    ELSE IF h.off = 0 THEN V6Fail
    ELSE IF h.off < Len(s) /\ s[h.off + 1] = "."
    THEN IF ellipsis < 0 /\ i # 12 THEN V6Fail
         ELSE IF i + 4 > 16 THEN V6Fail
         ELSE LET v4 == parseIPv4(s) IN
              IF ~v4.ok THEN V6Fail
              ELSE [ok |-> TRUE, s |-> <<>>, ip |-> ip \o v4.b,
                    ellipsis |-> ellipsis]
    ELSE
    LET ip2 == ip \o <<h.acc \div 256, h.acc % 256>>
        s2 == Tail0(s, h.off)
    IN
    IF Len(s2) = 0
    THEN [ok |-> TRUE, s |-> s2, ip |-> ip2, ellipsis |-> ellipsis]
    ELSE IF s2[1] # ":" THEN V6Fail
    ELSE IF Len(s2) = 1 THEN V6Fail
    ELSE
    LET s3 == Tail0(s2, 1) IN
    IF s3[1] = ":"
    THEN IF ellipsis >= 0 THEN V6Fail
         ELSE IF Len(s3) = 1
         THEN [ok |-> TRUE, s |-> <<>>, ip |-> ip2, ellipsis |-> Len(ip2)]
         ELSE V6Loop(Tail0(s3, 1), ip2, Len(ip2))
    ELSE V6Loop(s3, ip2, ellipsis)

parseIPv6(in) ==
    LET pct == IndexByte(in, "%")
        zoned == pct # 0
        s0 == IF zoned THEN SubSeq(in, 1, pct - 1) ELSE in
        zoneEmpty == zoned /\ pct = Len(in)
        lead == Len(s0) >= 2 /\ s0[1] = ":" /\ s0[2] = ":"
        s1 == IF lead THEN Tail0(s0, 2) ELSE s0
    IN
    IF zoneEmpty THEN [ok |-> FALSE, b |-> <<>>, zone |-> FALSE]
    ELSE IF lead /\ Len(s1) = 0
    THEN [ok |-> TRUE, b |-> Zeros(16), zone |-> zoned]
    ELSE
    LET r == V6Loop(s1, <<>>, IF lead THEN 0 ELSE -1) IN
    IF ~r.ok THEN [ok |-> FALSE, b |-> <<>>, zone |-> FALSE]
    ELSE IF Len(r.s) # 0 THEN [ok |-> FALSE, b |-> <<>>, zone |-> FALSE]
    ELSE IF Len(r.ip) < 16
    THEN IF r.ellipsis < 0 THEN [ok |-> FALSE, b |-> <<>>, zone |-> FALSE]
         ELSE [ok |-> TRUE,
               b |-> SubSeq(r.ip, 1, r.ellipsis)
                     \o Zeros(16 - Len(r.ip))
                     \o SubSeq(r.ip, r.ellipsis + 1, Len(r.ip)),
               zone |-> zoned]
    ELSE IF r.ellipsis >= 0 THEN [ok |-> FALSE, b |-> <<>>, zone |-> FALSE]
    ELSE [ok |-> TRUE, b |-> r.ip, zone |-> zoned]

V4InV6Prefix == Zeros(10) \o <<255, 255>>

\* net.ParseIP: nil (ok = FALSE) or the 16-byte form of the address;
\* form records which syntax the literal had
ParseIP(s) ==
    LET dot == IndexByte(s, ".")
        col == IndexByte(s, ":")
        pct == IndexByte(s, "%")
        first == IF dot # 0 /\ (col = 0 \/ dot < col) /\ (pct = 0 \/ dot < pct)
                 THEN "."
                 ELSE IF col # 0 /\ (pct = 0 \/ col < pct) THEN ":"
                 ELSE "none"
        nil == [ok |-> FALSE, b |-> <<>>, form |-> "none"]
    IN
    IF first = "."
    THEN LET r == parseIPv4(s) IN
         IF r.ok THEN [ok |-> TRUE, b |-> V4InV6Prefix \o r.b, form |-> "v4"]
         ELSE nil
    ELSE IF first = ":"
    THEN LET r == parseIPv6(s) IN
         IF r.ok /\ ~r.zone THEN [ok |-> TRUE, b |-> r.b, form |-> "v6"]
         ELSE nil
    ELSE nil

\* IP.To4() # nil
To4NotNil(ip) ==
    /\ ip.ok
    /\ SubSeq(ip.b, 1, 12) = V4InV6Prefix

IPV4 == "tcp4"
IPV6 == "tcp6"

netw(addr) == IF ~To4NotNil(addr) THEN IPV6 ELSE IPV4

\* ------------------------------------------------------------------------
\* Listener factory: CreateListener, createTCPListener, fileExists
\* ------------------------------------------------------------------------
\* The file system as CreateListener sees it at the unix target:
\*   kind      "missing", "file" (anything that is not a directory:
\*             a regular file, a stale socket) or "dir"
\*   statErr   os.Stat fails for a reason other than non-existence
\*             (a permission error on the path)
\*   unlinkErr syscall.Unlink fails
\*   listenErr binding/listening fails for a reason of the environment
FsStates ==
    [kind : {"missing", "file", "dir"},
     statErr : BOOLEAN, unlinkErr : BOOLEAN, listenErr : BOOLEAN]

NoListener ==
    [kind |-> "none", network |-> "none", err |-> "none",
     errHasAddr |-> FALSE, errAddr |-> <<>>, ops |-> <<>>]

Listener(network, ops) ==
    [kind |-> "listener", network |-> network, err |-> "none",
     errHasAddr |-> FALSE, errAddr |-> <<>>, ops |-> ops]

\* an error value; errAddr is the address text the error carries, if any
ErrorWith(tag, network, addr, ops) ==
    [kind |-> "error", network |-> network, err |-> tag,
     errHasAddr |-> TRUE, errAddr |-> addr, ops |-> ops]

ErrorBare(tag, network, ops) ==
    [kind |-> "error", network |-> network, err |-> tag,
     errHasAddr |-> FALSE, errAddr |-> <<>>, ops |-> ops]

Panic(ops) ==
    [kind |-> "panic", network |-> "none", err |-> "nil dereference",
     errHasAddr |-> FALSE, errAddr |-> <<>>, ops |-> ops]

\* os.Stat of the target: err is "none", "ENOENT" or "EACCES";
\* hasInfo is FALSE when the returned FileInfo is nil
Stat(fs) ==
    IF fs.statErr THEN [err |-> "EACCES", hasInfo |-> FALSE, isDir |-> FALSE]
    ELSE IF fs.kind = "missing"
    THEN [err |-> "ENOENT", hasInfo |-> FALSE, isDir |-> FALSE]
    ELSE [err |-> "none", hasInfo |-> TRUE, isDir |-> fs.kind = "dir"]

\* fileExists: "false", "true", or "panic" when info is nil and dereferenced
fileExists(fs) ==
    LET st == Stat(fs) IN
    IF st.err = "ENOENT" THEN "false"
    ELSE IF ~st.hasInfo THEN "panic"
    ELSE IF ~st.isDir THEN "true" ELSE "false"

\* tcplisten Config.NewListener(network, addr)
NewListener(network, addr, fs) ==
    IF fs.listenErr THEN ErrorWith("listen", network, addr, <<"bind">>)
    ELSE Listener(network, <<"bind">>)

createTCPListener(addr, fs) ==
    LET sp == SplitHostPort(addr) IN
    IF ~sp.ok THEN ErrorWith("split host port", "none", addr, <<>>)
    ELSE IF sp.host = <<>> THEN NewListener(IPV4, addr, fs)
    ELSE NewListener(netw(ParseIP(sp.host)), addr, fs)

\* net.Listen("unix", path) after ops; exists: the path exists at bind time
ListenUnix(path, exists, fs, ops) ==
    IF exists \/ fs.listenErr
    THEN ErrorWith("listen", "unix", path, Append(ops, "bind"))
    ELSE Listener("unix", Append(ops, "bind"))

CreateListener(address, fs) ==
    LET dsn == Split(address, SchemeSep) IN
    IF Len(dsn) = 1 THEN createTCPListener(dsn[1], fs)
    ELSE IF Len(dsn) = 2
    THEN IF dsn[1] = <<"u", "n", "i", "x">>
         THEN LET fe == fileExists(fs) IN
              IF fe = "panic" THEN Panic(<<"stat">>)
              ELSE IF fe = "true"
              THEN IF fs.unlinkErr
                   THEN ErrorBare("unlink", "unix", <<"stat", "unlink">>)
                   ELSE ListenUnix(dsn[2], FALSE, fs, <<"stat", "unlink">>)
              ELSE ListenUnix(dsn[2], fs.kind # "missing", fs, <<"stat">>)
         ELSE IF dsn[1] = <<"t", "c", "p">>
         THEN createTCPListener(dsn[2], fs)
         ELSE ErrorWith("invalid protocol", "none", address, <<>>)
    ELSE ErrorWith("wrong number of parts", "none", address, <<>>)

\* the target after the call: gone after a successful unlink, a socket file
\* after a successful unix bind to a path; a bind to the empty path is an
\* autobind to an abstract address and makes no file
FsAfter(address, fs, out) ==
    IF out.kind = "listener" /\ out.network = "unix"
    THEN IF Split(address, SchemeSep)[2] = <<>>
         THEN fs
         ELSE [fs EXCEPT !.kind = "file"]
    ELSE IF \E i \in 1..Len(out.ops) : out.ops[i] = "unlink"
    THEN IF fs.unlinkErr THEN fs ELSE [fs EXCEPT !.kind = "missing"]
    ELSE fs

\* addresses the listener factory is exercised with
Schemes ==
    { <<>>,
      <<"t", "c", "p", ":", "/", "/">>,
      <<"u", "n", "i", "x", ":", "/", "/">>,
      <<"u", "d", "p", ":", "/", "/">>,
      <<"t", "c", "p", ":", "/", "/", "x", ":", "/", "/">> }

Targets ==
    { <<>>,
      <<"1", "2", "7", ".", "0", ".", "0", ".", "1">>,
      <<"0", ".", "0", ".", "0", ".", "0">>,
      <<"[", ":", ":", "1", "]">>,
      <<"[", ":", ":", "]">>,
      <<"[", ":", ":", "f", "f", "f", "f", ":", "1", ".", "2", ".", "3", ".", "4", "]">>,
      <<"[", ":", ":", "0", "f", "f", "f", "f", ":", "1", ".", "2", ".", "3", ".", "4", "]">>,
      <<":", ":", "1">>,
      <<"l", "o", "c", "a", "l", "h", "o", "s", "t">>,
      <<"a", ".", "i", "o">>,
      <<"[", "f", "e", "8", "0", ":", ":", "1", "%", "e", "]">>,
      <<"/", "s", ".", "s", "o", "c", "k">> }

Ports == { <<>>, <<":", "8", "0">> }

Addresses == { sc \o t \o p : sc \in Schemes, t \in Targets, p \in Ports }

VARIABLES
    lsnAddress,   \* the address CreateListener is called with
    lsnFs,        \* the file system at the target when it is called
    lsnOut,       \* what the call returned (kind "none" before the call)
    lsnFsAfter    \* the file system at the target after the call

lsnVars == <<lsnAddress, lsnFs, lsnOut, lsnFsAfter>>

IdleFs ==
    [kind |-> "missing", statErr |-> FALSE,
     unlinkErr |-> FALSE, listenErr |-> FALSE]

\* the listener factory is not in use
LsnIdle ==
    /\ lsnAddress = <<>>
    /\ lsnFs = IdleFs
    /\ lsnOut = NoListener
    /\ lsnFsAfter = IdleFs

\* the empty path names no file: os.Stat of it reports non-existence
LsnInit ==
    /\ lsnAddress \in Addresses
    /\ lsnFs \in FsStates
    /\ Split(lsnAddress, SchemeSep) = <<<<"u", "n", "i", "x">>, <<>>>> =>
            (lsnFs.kind = "missing" /\ ~lsnFs.statErr)
    /\ lsnOut = NoListener
    /\ lsnFsAfter = lsnFs

\* one call of CreateListener(address)
LsnCreate ==
    /\ lsnOut.kind = "none"
    /\ lsnOut' = CreateListener(lsnAddress, lsnFs)
    /\ lsnFsAfter' = FsAfter(lsnAddress, lsnFs, lsnOut')
    /\ UNCHANGED <<lsnAddress, lsnFs>>

\* ------------------------------------------------------------------------
\* State of the request pipeline, the body limiter, the address rewrite and
\* the HTTPS server construction (their operations follow further down)
\* ------------------------------------------------------------------------
VARIABLES
    hPc,          \* hPc[q]: where request q is in the bundled middleware
    hId,          \* hId[q]: the id lm.Log generated for it (0: none)
    hHeader,      \* hHeader[q]: the X-Request-ID response header (0: unset)
    hCtxId,       \* hCtxId[q]: the id in the context of the request the
                  \*   inner handler is called with (0: none)
    hWrap,        \* hWrap[q]: the pooled wrapper the request uses (0: none)
    hSent,        \* hSent[q]: the status code sent to the client (0: none)
    hOps,         \* calls the inner handlers have made on their wrappers
    wCode,        \* wCode[w]: the code field of wrapper w
    pool,         \* the wrappers that are in lm.pool
    nextId,       \* the next id uuid.NewString() yields
    records       \* the access-log records emitted, oldest first

hndVars ==
    <<hPc, hId, hHeader, hCtxId, hWrap, hSent, hOps, wCode, pool, nextId,
      records>>

VARIABLES
    bLimit,       \* cfg.MaxRequestSize (megabytes), a 64-bit number
    bBody,        \* length of the request body in bytes
    bRead         \* what reading the whole body gave the inner handler

bodyVars == <<bLimit, bBody, bRead>>

VARIABLES
    tlsIn,        \* the arguments of TLSAddr / tlsAddr
    tlsOut        \* the results of applying them once and twice

tlsaVars == <<tlsIn, tlsOut>>

VARIABLES
    sslCfg,       \* the SSL block of the configuration and its environment
    cfgPc,        \* how far Plugin.Init and NewHTTPSServer have come
    tlsConf,      \* the TLSConfig of the HTTPS server under construction
    issued        \* the calls of IssueCertificates made, oldest first

pkiVars == <<sslCfg, cfgPc, tlsConf, issued>>

auxVars == <<hndVars, bodyVars, tlsaVars, pkiVars>>

\* ------------------------------------------------------------------------
\* Plugin, HTTP server, HTTPS server
\* ------------------------------------------------------------------------
Servers == {"http", "https"}

\* names a middleware can be registered or configured under
Names == {"a", "b"}

\* capacity of the channel Serve returns
ErrChCap == 2

VARIABLES
    cfg,          \* p.cfg: [http, tls, h2c, redirect] (EnableHTTP, EnableTLS,
                  \* HTTP2.H2C, SSL.Redirect)
    order,        \* p.cfg.Middleware, the configured name list
    mdwr,         \* p.mdwr, the registry: the set of registered names
    servers,      \* p.servers
    servePc,      \* "init" before Serve, "returned" after it
    serveErr,     \* initServers returned an error
    handler,      \* handler[s]: the server's Handler, outermost layer first
    startPc,      \* startPc[s]: where the goroutine running Start is
    startI,       \* startI[s]: the index i of Start's loop (1-based)
    startErr,     \* startErr[s]: what Start returned ("none" before)
    warned,       \* warned[s]: names Start logged a warning for, in order
    applied,      \* applied[s]: names whose Middleware() Start called
    inShutdown,   \* inShutdown[s]: Shutdown was called on the server
    ln,           \* ln[s]: the listener of Start
    errCh,        \* the error channel: senders of the buffered errors
    muWriter,     \* p.mu: who holds the write lock ("none")
    muPending,    \* p.mu: callers of Lock() that wait for it
    muReaders,    \* p.mu: number of read locks held
    collPc,       \* the Collects callback that is running
    collKind,     \* which of the three callbacks it is ("none": none runs)
    collNames,    \* the names it registers
    collBad,      \* callback 2: an element that is no Middleware follows them
    pHandler,     \* p.handler: the no-op of Init or a collected handler
    collCalls,    \* number of registrations made after Serve
    crashed,      \* the runtime ended the process (fatal error)
    reqPc,        \* reqPc[r]: where request r is
    reqSrv,       \* reqSrv[r]: the server that accepted it
    stopPc,       \* the caller of Plugin.Stop
    stopRes,      \* what Plugin.Stop returned
    stopCalls,    \* number of Plugin.Stop calls made
    ctxDone,      \* the context of the current Plugin.Stop call is done
    deadlineFar,  \* the deadline passes only when nothing else can happen
    supPc,        \* supPc[k]: the goroutine Plugin.Stop call k started
    supI,         \* supI[k]: its loop index
    doneCh        \* doneCh[k]: number of values buffered in its doneCh

cfgVars == <<cfg, order, deadlineFar>>
asmVars == <<handler, startI, warned, applied>>
startVars == <<startPc, startErr, ln>>
muVars == <<muWriter, muPending, muReaders>>
collVars == <<collPc, collKind, collNames, collBad, collCalls, pHandler>>
reqVars == <<reqPc, reqSrv>>
stopVars == <<stopPc, stopRes, stopCalls, ctxDone>>
supVars == <<supPc, supI, doneCh>>

plugVars ==
    <<cfgVars, mdwr, servers, servePc, serveErr, asmVars, startVars,
      inShutdown, errCh, muVars, collVars, crashed, reqVars, stopVars,
      supVars>>

vars == <<lsnVars, plugVars, auxVars>>

Requests == 1..MaxReq
StopCallIds == 1..MaxStopCalls

InSeq(x, sq) == \E i \in 1..Len(sq) : sq[i] = x

RECURSIVE Reverse(_)
Reverse(sq) ==
    IF sq = <<>> THEN <<>> ELSE Append(Reverse(Tail(sq)), Head(sq))

\* ---- handler composition
\* m.Middleware(next), MaxRequestSize(next, n), NewLogMiddleware(next, log),
\* h2c.NewHandler(next, ...): the new layer runs first and calls next
Wrap(layer, next) == <<layer>> \o next

\* middleware.Redirect(_, port): the handler it returns never calls next
Redirect(next) == <<"Redirect">>

\* NewHTTPServer / NewHTTPSServer: the Handler of a new server
NewHandler(s, c) ==
    IF s = "http" /\ c.h2c THEN Wrap("h2c", <<"Plugin">>) ELSE <<"Plugin">>

\* variant: the two bundled layers applied in the other order
applyBundledMiddlewareSwapped(h) == Wrap("MaxRequestSize", Wrap("Log", h))
\* applyBundledMiddleware: MaxRequestSize is applied first, then the logger
\* around it
applyBundledMiddleware(h) == Wrap("Log", Wrap("MaxRequestSize", h))

\* initServers: the servers appended and whether it returned an error
initServers(c, tlsOK) ==
    [servers |-> (IF c.http THEN <<"http">> ELSE <<>>)
                 \o (IF c.tls /\ tlsOK THEN <<"https">> ELSE <<>>),
     err |-> c.tls /\ ~tlsOK]

\* variant: Serve starts the servers even after a construction error
ServeAlwaysStarts(err) == FALSE
\* Serve returns right after sending the construction error
ServeReturnsEarly(err) == err

FirstPc(s) == IF s = "https" THEN "check" ELSE "mw"

\* Plugin.Serve, up to its return
Serve ==
    /\ ~crashed
    /\ servePc = "init"
    /\ \E tlsOK \in {ok \in BOOLEAN : cfg.tls \/ ok} :
        LET r == initServers(cfg, tlsOK) IN
        /\ servers' = r.servers
        /\ serveErr' = r.err
        /\ errCh' = IF r.err THEN Append(errCh, "init") ELSE errCh
        /\ IF ServeReturnsEarly(r.err)
           THEN /\ handler' = [s \in Servers |->
                        IF InSeq(s, r.servers) THEN NewHandler(s, cfg)
                        ELSE <<>>]
                /\ UNCHANGED startPc
           ELSE /\ handler' = [s \in Servers |->
                        IF InSeq(s, r.servers)
                        THEN applyBundledMiddleware(NewHandler(s, cfg))
                        ELSE <<>>]
                /\ startPc' = [s \in Servers |->
                        IF InSeq(s, r.servers) THEN FirstPc(s) ELSE "none"]
    /\ servePc' = "returned"
    /\ UNCHANGED <<cfgVars, mdwr, startI, warned, applied, startErr, ln,
                   inShutdown, muVars, collVars, crashed, reqVars, stopVars,
                   supVars, lsnVars, auxVars>>

\* ---- the registry as a read without the lock can see it
\* A read that overlaps the write of Collects is a data race: it sees the
\* map before or after the write, or the runtime detects it and ends the
\* process.
\* (the third callback writes p.handler, and a second callback whose loop
\* registers nothing writes nothing)
Writing == collPc = "writing" /\ collKind # "handler" /\ collNames # {}
RegistryViews ==
    IF Writing THEN {mdwr \cup ns : ns \in SUBSET collNames} ELSE {mdwr}

\* https.Server.Start: the guard `len(mdwr) > 0` around the loop
StartCheck(s) ==
    /\ ~crashed
    /\ startPc[s] = "check"
    /\ \E view \in RegistryViews :
        IF Cardinality(view) > 0
        THEN UNCHANGED startI
        ELSE startI' = [startI EXCEPT ![s] = Len(order) + 1]
    /\ startPc' = [startPc EXCEPT ![s] = "mw"]
    /\ UNCHANGED <<cfgVars, mdwr, servers, servePc, serveErr, handler,
                   warned, applied, startErr, ln, inShutdown, errCh, muVars,
                   collVars, crashed, reqVars, stopVars, supVars, lsnVars, auxVars>>

\* one iteration of Start's loop over the configured names
StartLookup(s) ==
    /\ ~crashed
    /\ startPc[s] = "mw"
    /\ startI[s] <= Len(order)
    /\ \E view \in RegistryViews :
        LET name == order[startI[s]] IN
        IF name \in view
        THEN /\ handler' = [handler EXCEPT ![s] = Wrap(name, handler[s])]
             /\ applied' = [applied EXCEPT ![s] = Append(applied[s], name)]
             /\ UNCHANGED warned
        ELSE /\ warned' = [warned EXCEPT ![s] = Append(warned[s], name)]
             /\ UNCHANGED <<handler, applied>>
    /\ startI' = [startI EXCEPT ![s] = startI[s] + 1]
    /\ UNCHANGED <<cfgVars, mdwr, servers, servePc, serveErr, startVars,
                   inShutdown, errCh, muVars, collVars, crashed, reqVars,
                   stopVars, supVars, lsnVars, auxVars>>

\* the runtime detects the concurrent map read and map write
StartLookupFatal(s) ==
    /\ ~crashed
    /\ startPc[s] = "mw"
    /\ startI[s] <= Len(order)
    /\ Writing
    /\ crashed' = TRUE
    /\ UNCHANGED <<cfgVars, mdwr, servers, servePc, serveErr, asmVars,
                   startVars, inShutdown, errCh, muVars, collVars, reqVars,
                   stopVars, supVars, lsnVars, auxVars>>

\* what CreateListener(s.address) can end with: a listener, an error, or
\* the panic of fileExists, which no one recovers in the goroutine of Serve
\* and which ends the process
ListenOutcomes ==
    {CreateListener(a, fs).kind : a \in Addresses, fs \in FsStates}

\* after the loop: the redirect wrapper (plain HTTP only), then the listener
StartListen(s) ==
    /\ ~crashed
    /\ startPc[s] = "mw"
    /\ startI[s] > Len(order)
    /\ handler' = [handler EXCEPT ![s] =
            IF s = "http" /\ cfg.redirect THEN Redirect(handler[s])
            ELSE handler[s]]
    /\ \E out \in ListenOutcomes :
        IF out = "listener"
        THEN /\ ln' = [ln EXCEPT ![s] = "bound"]
             /\ startPc' = [startPc EXCEPT ![s] = "serve"]
             /\ UNCHANGED <<startErr, crashed>>
        ELSE IF out = "error"
        THEN /\ startErr' = [startErr EXCEPT ![s] = "listen"]
             /\ startPc' = [startPc EXCEPT ![s] = "send"]
             /\ UNCHANGED <<ln, crashed>>
        ELSE /\ crashed' = TRUE
             /\ startPc' = [startPc EXCEPT ![s] = "panicked"]
             /\ UNCHANGED <<startErr, ln>>
    /\ UNCHANGED <<cfgVars, mdwr, servers, servePc, serveErr, startI, warned,
                   applied, inShutdown, errCh, muVars, collVars, reqVars,
                   stopVars, supVars, lsnVars, auxVars>>

\* ---- Serve / ServeTLS and the result of Start
\* variant: a server that serves although Shutdown was called
ServeNeverRefused(s) == FALSE
\* http.Server.Serve refuses a listener once Shutdown was called
ServeRefused(s) == inShutdown[s]

\* variant: Start returns whatever Serve returned
StartResultUnfiltered(err) == err
\* Start: `if err != nil && !errors.Is(err, http.ErrServerClosed)`
StartResult(err) == IF err = "ErrServerClosed" THEN "nil" ELSE err

\* the goroutine of Serve: `if errSt != nil { errCh <- errSt }`
AfterStart(res) == IF res = "nil" THEN "done" ELSE "send"

\* Start calls Serve (ServeTLS on the HTTPS server, which loads the
\* certificate first)
StartServe(s) ==
    /\ ~crashed
    /\ startPc[s] = "serve"
    /\ \E certOK \in {ok \in BOOLEAN : s = "https" \/ ok} :
        LET err == IF ~certOK THEN "tls"
                   ELSE IF ServeRefused(s) THEN "ErrServerClosed"
                   ELSE "none"
        IN
        IF err = "none"
        THEN /\ ln' = [ln EXCEPT ![s] = "serving"]
             /\ startPc' = [startPc EXCEPT ![s] = "accept"]
             /\ UNCHANGED startErr
        ELSE /\ ln' = [ln EXCEPT ![s] =
                    IF err = "ErrServerClosed" THEN "refused" ELSE "bound"]
             /\ startErr' = [startErr EXCEPT ![s] = StartResult(err)]
             /\ startPc' = [startPc EXCEPT ![s] =
                    AfterStart(StartResult(err))]
    /\ UNCHANGED <<cfgVars, mdwr, servers, servePc, serveErr, asmVars,
                   inShutdown, errCh, muVars, collVars, crashed, reqVars,
                   stopVars, supVars, lsnVars, auxVars>>

\* the accept loop ends: Shutdown closed the listener
StartAcceptExit(s) ==
    /\ ~crashed
    /\ startPc[s] = "accept"
    /\ ln[s] = "closed"
    /\ startErr' = [startErr EXCEPT ![s] = StartResult("ErrServerClosed")]
    /\ startPc' = [startPc EXCEPT ![s] =
            AfterStart(StartResult("ErrServerClosed"))]
    /\ UNCHANGED <<cfgVars, mdwr, servers, servePc, serveErr, asmVars, ln,
                   inShutdown, errCh, muVars, collVars, crashed, reqVars,
                   stopVars, supVars, lsnVars, auxVars>>

\* `errCh <- errSt`: blocks while the buffer is full
StartSend(s) ==
    /\ ~crashed
    /\ startPc[s] = "send"
    /\ Len(errCh) < ErrChCap
    /\ errCh' = Append(errCh, s)
    /\ startPc' = [startPc EXCEPT ![s] = "done"]
    /\ UNCHANGED <<cfgVars, mdwr, servers, servePc, serveErr, asmVars,
                   startErr, ln, inShutdown, muVars, collVars, crashed,
                   reqVars, stopVars, supVars, lsnVars, auxVars>>

\* ---- p.mu (sync.RWMutex)
\* the requests between p.mu.RLock() and p.mu.RUnlock() in Plugin.ServeHTTP
ActiveReaders == {r \in Requests : reqPc[r] = "handler"}

\* Lock() returns: no writer holds the lock and no read lock is held
CanLock == muWriter = "none" /\ muReaders = 0

\* RLock() returns at once unless a writer holds or waits for the lock
CanRLock == muWriter = "none" /\ muPending = {}

\* Unlock() lets the readers blocked in RLock() proceed
ReleaseReaders(pc) ==
    [r \in Requests |-> IF pc[r] = "rwait" THEN "handler" ELSE pc[r]]

\* the read locks those readers take
Released(pc) == Cardinality({r \in Requests : pc[r] = "rwait"})

\* ---- Collects: the three callbacks (after Serve: late ones)
\* A callback that panics unwinds into its caller, the container, which is
\* not part of this repository: the panic ends the process unless the
\* container recovers it.
PanicOutcomes == {"fatal", "recovered"}

\* the first callback: one middleware is registered under its name (its
\* assertion of middleware.Middleware cannot fail: the callback is
\* registered for that interface)
CollectsCall(n) ==
    /\ ~crashed
    /\ servePc = "returned"
    /\ collPc = "idle"
    /\ collCalls < MaxLate
    /\ collCalls' = collCalls + 1
    /\ collPc' = "lock"
    /\ collKind' = "one"
    /\ collNames' = {n}
    /\ collBad' = FALSE
    /\ muPending' = muPending \cup {"collects"}
    /\ UNCHANGED <<cfgVars, mdwr, servers, servePc, serveErr, asmVars,
                   startVars, inShutdown, errCh, muWriter, muReaders,
                   pHandler, crashed, reqVars, stopVars, supVars, lsnVars,
                   auxVars>>

\* the second callback, called with a plugin that is a Middleware (what the
\* callback is registered for) but no Middlewares: the assertion
\* `pp.(middleware.Middlewares)` panics before p.mu.Lock(); nothing is
\* registered and the lock is not requested
CollectsManyPanic(out) ==
    /\ ~crashed
    /\ servePc = "returned"
    /\ collPc = "idle"
    /\ collCalls < MaxLate
    /\ collCalls' = collCalls + 1
    /\ collPc' = IF out = "fatal" THEN "panicked" ELSE collPc
    /\ crashed' = (out = "fatal")
    /\ UNCHANGED <<cfgVars, mdwr, servers, servePc, serveErr, asmVars,
                   startVars, inShutdown, errCh, muVars, collKind, collNames,
                   collBad, pHandler, reqVars, stopVars, supVars, lsnVars,
                   auxVars>>

\* the results of HTTPMiddlewares() the second callback is exercised with:
\* no middleware, or all of them (with one it does what the first does)
NameSets == {ns \in SUBSET Names : Cardinality(ns) # 1}

\* the second callback, called with a Middlewares: HTTPMiddlewares() returns
\* the middleware ns, followed (bad) or not by an element that is no
\* middleware.Middleware
CollectsManyCall(ns, bad) ==
    /\ ~crashed
    /\ servePc = "returned"
    /\ collPc = "idle"
    /\ collCalls < MaxLate
    /\ collCalls' = collCalls + 1
    /\ collPc' = "lock"
    /\ collKind' = "many"
    /\ collNames' = ns
    /\ collBad' = bad
    /\ muPending' = muPending \cup {"collects"}
    /\ UNCHANGED <<cfgVars, mdwr, servers, servePc, serveErr, asmVars,
                   startVars, inShutdown, errCh, muWriter, muReaders,
                   pHandler, crashed, reqVars, stopVars, supVars, lsnVars,
                   auxVars>>

\* the third callback: p.handler is set under the lock (its assertion of
\* http.Handler cannot fail either)
CollectsHandlerCall ==
    /\ ~crashed
    /\ servePc = "returned"
    /\ collPc = "idle"
    /\ collCalls < MaxLate
    /\ collCalls' = collCalls + 1
    /\ collPc' = "lock"
    /\ collKind' = "handler"
    /\ collNames' = {}
    /\ collBad' = FALSE
    /\ muPending' = muPending \cup {"collects"}
    /\ UNCHANGED <<cfgVars, mdwr, servers, servePc, serveErr, asmVars,
                   startVars, inShutdown, errCh, muWriter, muReaders,
                   pHandler, crashed, reqVars, stopVars, supVars, lsnVars,
                   auxVars>>

\* p.mu.Lock() returns and the callback's write begins
CollectsLock ==
    /\ ~crashed
    /\ collPc = "lock"
    /\ CanLock
    /\ muWriter' = "collects"
    /\ muPending' = muPending \ {"collects"}
    /\ collPc' = "writing"
    /\ UNCHANGED <<cfgVars, mdwr, servers, servePc, serveErr, asmVars,
                   startVars, inShutdown, errCh, muReaders, collKind,
                   collNames, collBad, collCalls, pHandler, crashed, reqVars,
                   stopVars, supVars, lsnVars, auxVars>>

\* the write is complete; p.mu.Unlock(); the callback returns
CollectsUnlock ==
    /\ ~crashed
    /\ collPc = "writing"
    /\ ~collBad
    /\ mdwr' = mdwr \cup collNames
    /\ pHandler' = IF collKind = "handler" THEN "collected" ELSE pHandler
    /\ muWriter' = "none"
    /\ reqPc' = ReleaseReaders(reqPc)
    /\ muReaders' = muReaders + Released(reqPc)
    /\ collPc' = "idle"
    /\ collKind' = "none"
    /\ collNames' = {}
    /\ collBad' = FALSE
    /\ UNCHANGED <<cfgVars, servers, servePc, serveErr, asmVars, startVars,
                   inShutdown, errCh, muPending, collCalls, crashed, reqSrv,
                   stopVars, supVars, lsnVars, auxVars>>

\* the loop of the second callback reaches the element that is no
\* Middleware: `mdwr.(middleware.Middleware)` panics after the elements
\* before it were registered; p.mu.Unlock() is not deferred and does not
\* run, so the write lock stays held
CollectsLoopPanic(out) ==
    /\ ~crashed
    /\ collPc = "writing"
    /\ collBad
    /\ mdwr' = mdwr \cup collNames
    /\ collPc' = "panicked"
    /\ collKind' = "none"
    /\ collNames' = {}
    /\ collBad' = FALSE
    /\ crashed' = (out = "fatal")
    /\ UNCHANGED <<cfgVars, servers, servePc, serveErr, asmVars, startVars,
                   inShutdown, errCh, muVars, collCalls, pHandler, reqVars,
                   stopVars, supVars, lsnVars, auxVars>>

\* ---- requests
ActiveConns(s) ==
    {r \in Requests : reqSrv[r] = s /\ reqPc[r] \in {"conn", "rwait", "handler"}}

\* the accept loop of server s accepts a connection carrying request r
\* (the requests are numbered in the order they are accepted)
Accept(r, s) ==
    /\ ~crashed
    /\ reqPc[r] = "none"
    /\ \A q \in 1..(r - 1) : reqPc[q] # "none"
    /\ startPc[s] = "accept"
    /\ ln[s] = "serving"
    /\ reqPc' = [reqPc EXCEPT ![r] = "conn"]
    /\ reqSrv' = [reqSrv EXCEPT ![r] = s]
    /\ UNCHANGED <<cfgVars, mdwr, servers, servePc, serveErr, asmVars,
                   startVars, inShutdown, errCh, muVars, collVars, crashed,
                   stopVars, supVars, lsnVars, auxVars>>

\* the request runs down the server's handler chain to Plugin.ServeHTTP,
\* which calls p.mu.RLock() (a Redirect layer answers without calling on)
ReqEnter(r) ==
    /\ ~crashed
    /\ reqPc[r] = "conn"
    /\ reqPc' = [reqPc EXCEPT ![r] =
            IF ~InSeq("Plugin", handler[reqSrv[r]]) THEN "done"
            ELSE IF CanRLock THEN "handler" ELSE "rwait"]
    /\ muReaders' = IF InSeq("Plugin", handler[reqSrv[r]]) /\ CanRLock
                    THEN muReaders + 1 ELSE muReaders
    /\ UNCHANGED <<cfgVars, mdwr, servers, servePc, serveErr, asmVars,
                   startVars, inShutdown, errCh, muWriter, muPending,
                   collVars, crashed, reqSrv, stopVars, supVars, lsnVars,
                   auxVars>>

\* p.handler.ServeHTTP returns; p.mu.RUnlock(); the body is closed
ReqReturn(r) ==
    /\ ~crashed
    /\ reqPc[r] = "handler"
    /\ reqPc' = [reqPc EXCEPT ![r] = "done"]
    /\ muReaders' = muReaders - 1
    /\ UNCHANGED <<cfgVars, mdwr, servers, servePc, serveErr, asmVars,
                   startVars, inShutdown, errCh, muWriter, muPending,
                   collVars, crashed, reqSrv, stopVars, supVars, lsnVars,
                   auxVars>>

\* p.handler.ServeHTTP panics (a collected handler; the no-op of Init does
\* not): the call of p.mu.RUnlock() that follows it is not deferred and
\* does not run;
\* net/http recovers the panic in the connection's goroutine and closes
\* the connection
ReqPanic(r) ==
    /\ ~crashed
    /\ reqPc[r] = "handler"
    /\ pHandler = "collected"
    /\ reqPc' = [reqPc EXCEPT ![r] = "panicked"]
    /\ UNCHANGED <<cfgVars, mdwr, servers, servePc, serveErr, asmVars,
                   startVars, inShutdown, errCh, muVars, collVars, crashed,
                   reqSrv, stopVars, supVars, lsnVars, auxVars>>

\* ---- Plugin.Stop
\* Stop is called: p.mu.Lock() is reached and waits for the lock
StopCall ==
    /\ ~crashed
    /\ servePc = "returned"
    /\ stopPc \in {"idle", "returned"}
    /\ stopCalls < MaxStopCalls
    /\ stopCalls' = stopCalls + 1
    /\ stopPc' = "lock"
    /\ stopRes' = "none"
    /\ ctxDone' = FALSE
    /\ muPending' = muPending \cup {"stop"}
    /\ UNCHANGED <<cfgVars, mdwr, servers, servePc, serveErr, asmVars,
                   startVars, inShutdown, errCh, muWriter, muReaders, collVars,
                   crashed, reqVars, supVars, lsnVars, auxVars>>

\* p.mu.Lock() returns; doneCh is made and the goroutine started
StopLock ==
    /\ ~crashed
    /\ stopPc = "lock"
    /\ CanLock
    /\ muWriter' = "stop"
    /\ muPending' = muPending \ {"stop"}
    /\ supPc' = [supPc EXCEPT ![stopCalls] = "stop"]
    /\ supI' = [supI EXCEPT ![stopCalls] = 1]
    /\ stopPc' = "select"
    /\ UNCHANGED <<cfgVars, mdwr, servers, servePc, serveErr, asmVars,
                   startVars, inShutdown, errCh, muReaders, collVars, crashed,
                   reqVars, stopRes, stopCalls, ctxDone, doneCh, lsnVars,
                   auxVars>>

\* the results the select can yield now: ctx.Err() when the context is
\* done, nil when doneCh holds a value (either when both are ready)
SelectReady ==
    (IF ctxDone THEN {"ctxErr"} ELSE {})
        \cup (IF doneCh[stopCalls] > 0 THEN {"nil"} ELSE {})

\* the select returns; the deferred p.mu.Unlock() runs
StopSelect ==
    /\ ~crashed
    /\ stopPc = "select"
    /\ \E res \in SelectReady :
        /\ stopRes' = res
        /\ doneCh' = IF res = "nil"
                     THEN [doneCh EXCEPT ![stopCalls] = doneCh[stopCalls] - 1]
                     ELSE doneCh
    /\ stopPc' = "returned"
    /\ muWriter' = "none"
    /\ reqPc' = ReleaseReaders(reqPc)
    /\ muReaders' = muReaders + Released(reqPc)
    /\ UNCHANGED <<cfgVars, mdwr, servers, servePc, serveErr, asmVars,
                   startVars, inShutdown, errCh, muPending, collVars, crashed,
                   reqSrv, stopCalls, ctxDone, supPc, supI, lsnVars, auxVars>>

\* ---- the goroutine of Plugin.Stop and the servers' Stop
\* Server.Stop calls Shutdown, which first marks the server as shutting
\* down (inShutdown.Store(true)) and then, in a later step, closes the
\* listener it serves on (closeListenersLocked): the accept loop can still
\* accept a connection between the two
ShutdownListener(l) == IF l = "serving" THEN "closed" ELSE l

\* Shutdown returns once the accept loop has returned and no connection is
\* active
ShutdownDone(s) == startPc[s] # "accept" /\ ActiveConns(s) = {}

SupStop(k) ==
    /\ ~crashed
    /\ supPc[k] = "stop"
    /\ supI[k] <= Len(servers)
    /\ inShutdown' = [inShutdown EXCEPT ![servers[supI[k]]] = TRUE]
    /\ supPc' = [supPc EXCEPT ![k] = "close"]
    /\ UNCHANGED <<cfgVars, mdwr, servers, servePc, serveErr, asmVars,
                   startVars, errCh, muVars, collVars, crashed, reqVars,
                   stopVars, supI, doneCh, lsnVars, auxVars>>

\* Shutdown closes the listener of the server
SupClose(k) ==
    /\ ~crashed
    /\ supPc[k] = "close"
    /\ LET s == servers[supI[k]] IN
        ln' = [ln EXCEPT ![s] = ShutdownListener(ln[s])]
    /\ supPc' = [supPc EXCEPT ![k] = "wait"]
    /\ UNCHANGED <<cfgVars, mdwr, servers, servePc, serveErr, asmVars,
                   startPc, startErr, inShutdown, errCh, muVars, collVars,
                   crashed, reqVars, stopVars, supI, doneCh, lsnVars,
                   auxVars>>

SupWait(k) ==
    /\ ~crashed
    /\ supPc[k] = "wait"
    /\ ShutdownDone(servers[supI[k]])
    /\ supI' = [supI EXCEPT ![k] = supI[k] + 1]
    /\ supPc' = [supPc EXCEPT ![k] = "stop"]
    /\ UNCHANGED <<cfgVars, mdwr, servers, servePc, serveErr, asmVars,
                   startVars, inShutdown, errCh, muVars, collVars, crashed,
                   reqVars, stopVars, doneCh, lsnVars, auxVars>>

\* an unbuffered doneCh: the send waits for a receiver
DoneChUnbuffered(n) == n >= 0

\* doneCh := make(chan struct{}, 1): a send blocks while one value is
\* buffered
DoneChFull(n) == n >= 1

\* `doneCh <- struct{}{}` after the loop
SupSignal(k) ==
    /\ ~crashed
    /\ supPc[k] = "stop"
    /\ supI[k] > Len(servers)
    /\ ~DoneChFull(doneCh[k])
    /\ doneCh' = [doneCh EXCEPT ![k] = doneCh[k] + 1]
    /\ supPc' = [supPc EXCEPT ![k] = "exit"]
    /\ UNCHANGED <<cfgVars, mdwr, servers, servePc, serveErr, asmVars,
                   startVars, inShutdown, errCh, muVars, collVars, crashed,
                   reqVars, stopVars, supI, lsnVars, auxVars>>

\* ---- the steps of the program in the life-cycle specification
Progress ==
    \/ Serve
    \/ \E s \in Servers :
        \/ StartCheck(s)
        \/ StartLookup(s)
        \/ StartListen(s)
        \/ StartServe(s)
        \/ StartAcceptExit(s)
        \/ StartSend(s)
    \/ \E r \in Requests :
        \/ \E s \in Servers : Accept(r, s)
        \/ ReqEnter(r)
        \/ ReqReturn(r)
        \/ ReqPanic(r)
    \/ StopCall
    \/ StopLock
    \/ StopSelect
    \/ \E k \in StopCallIds :
        \/ SupStop(k)
        \/ SupClose(k)
        \/ SupWait(k)
        \/ SupSignal(k)

\* the context of the running Stop call is done (its deadline passes); with
\* deadlineFar this happens only when the program can do nothing else
CtxExpire ==
    /\ ~crashed
    /\ stopPc \in {"lock", "select"}
    /\ ~ctxDone
    /\ deadlineFar => ~ENABLED Progress
    /\ ctxDone' = TRUE
    /\ UNCHANGED <<cfgVars, mdwr, servers, servePc, serveErr, asmVars,
                   startVars, inShutdown, errCh, muVars, collVars, crashed,
                   reqVars, stopPc, stopRes, stopCalls, supVars, lsnVars, auxVars>>

\* ------------------------------------------------------------------------
\* The bundled middleware on the path of a request: lm.Log, the pooled
\* wrapper, MaxRequestSize, the inner handler's calls
\* ------------------------------------------------------------------------
HReqs == 1..MaxHReq

\* the wrappers of lm.pool; one New() makes is zeroed like one that was
\* reset, so they all start in the pool with zero fields
Wrappers == 1..MaxHReq

\* final status codes an inner handler passes to WriteHeader
Codes == {200, 404, 500, 600}

\* lm.Log: the level of the record, chosen from the captured code
LogLevel(code) ==
    IF code >= 400 /\ code < 500 THEN "warn"
    ELSE IF code >= 500 THEN "error"
    ELSE "info"

\* a clone made with a fresh context: the values of the request's context
\* are gone
CloneDropsCtx(ctxId) == 0

\* r.Clone(r.Context()) in MaxRequestSize: the clone keeps the context
CloneCtx(ctxId) == ctxId

\* GetRequestID: the id stored in the context (0 stands for "")
GetRequestID(ctxId) == ctxId

\* wrapper.reset: the code field
reset(code) == 0

\* the status net/http sends when the body is written, or the handler
\* returns, before any WriteHeader
ImplicitStatus == 200

\* the underlying ResponseWriter keeps the first status it was given
FirstCode(sent, code) == IF sent = 0 THEN code ELSE sent

\* wrapper.WriteHeader: what the wrapper records for a call with code
Captured(old, code) == code

\* wrapper.Write: what the wrapper records when the body is written
CapturedOnWrite(old) == old

hndOthers == <<lsnVars, plugVars, bodyVars, tlsaVars, pkiVars>>

\* lm.Log up to the call of the inner handler: a fresh id, the response
\* header, the context value, a wrapper from the pool; then MaxRequestSize
\* clones the request and calls the inner handler
LogEnter(q) ==
    /\ hPc[q] = "idle"
    /\ \E w \in pool :
        /\ hWrap' = [hWrap EXCEPT ![q] = w]
        /\ pool' = pool \ {w}
    /\ hId' = [hId EXCEPT ![q] = nextId]
    /\ nextId' = nextId + 1
    /\ hHeader' = [hHeader EXCEPT ![q] = nextId]
    /\ hCtxId' = [hCtxId EXCEPT ![q] = CloneCtx(nextId)]
    /\ hPc' = [hPc EXCEPT ![q] = "inner"]
    /\ UNCHANGED <<hSent, hOps, wCode, records, hndOthers>>

\* the inner handler calls WriteHeader(code) on the wrapper
HWriteHeader(q, code) ==
    /\ hPc[q] = "inner"
    /\ hOps < MaxOps
    /\ wCode' = [wCode EXCEPT ![hWrap[q]] = Captured(@, code)]
    /\ hSent' = [hSent EXCEPT ![q] = FirstCode(@, code)]
    /\ hOps' = hOps + 1
    /\ UNCHANGED <<hPc, hId, hHeader, hCtxId, hWrap, pool, nextId, records,
                   hndOthers>>

\* the inner handler calls Write on the wrapper
HWrite(q) ==
    /\ hPc[q] = "inner"
    /\ hOps < MaxOps
    /\ wCode' = [wCode EXCEPT ![hWrap[q]] = CapturedOnWrite(@)]
    /\ hSent' = [hSent EXCEPT ![q] = FirstCode(@, ImplicitStatus)]
    /\ hOps' = hOps + 1
    /\ UNCHANGED <<hPc, hId, hHeader, hCtxId, hWrap, pool, nextId, records,
                   hndOthers>>

\* the inner handler returns: lm.Log emits the record, then the deferred
\* putW resets the wrapper and puts it back
HReturn(q) ==
    /\ hPc[q] = "inner"
    /\ LET w == hWrap[q] IN
        /\ records' = Append(records,
                [req |-> q, id |-> hId[q], status |-> wCode[w],
                 level |-> LogLevel(wCode[w])])
        /\ wCode' = [wCode EXCEPT ![w] = reset(@)]
        /\ pool' = pool \cup {w}
    /\ hWrap' = [hWrap EXCEPT ![q] = 0]
    /\ hSent' = [hSent EXCEPT ![q] = FirstCode(@, ImplicitStatus)]
    /\ hPc' = [hPc EXCEPT ![q] = "done"]
    /\ UNCHANGED <<hId, hHeader, hCtxId, hOps, nextId, hndOthers>>

\* the inner handler panics: the deferred putW runs, no record is emitted
HPanic(q) ==
    /\ hPc[q] = "inner"
    /\ LET w == hWrap[q] IN
        /\ wCode' = [wCode EXCEPT ![w] = reset(@)]
        /\ pool' = pool \cup {w}
    /\ hWrap' = [hWrap EXCEPT ![q] = 0]
    /\ hPc' = [hPc EXCEPT ![q] = "panicked"]
    /\ UNCHANGED <<hId, hHeader, hCtxId, hSent, hOps, nextId, records,
                   hndOthers>>

\* no request has reached the bundled middleware
HndIdle ==
    /\ hPc = [q \in HReqs |-> "idle"]
    /\ hId = [q \in HReqs |-> 0]
    /\ hHeader = [q \in HReqs |-> 0]
    /\ hCtxId = [q \in HReqs |-> 0]
    /\ hWrap = [q \in HReqs |-> 0]
    /\ hSent = [q \in HReqs |-> 0]
    /\ hOps = 0
    /\ wCode = [w \in Wrappers |-> 0]
    /\ pool = Wrappers
    /\ nextId = 1
    /\ records = <<>>

\* ------------------------------------------------------------------------
\* The size limiter: cfg.MaxRequestSize*MB and http.MaxBytesReader
\* ------------------------------------------------------------------------
\* 64-bit numbers are written in base MB (2^20), least significant digit
\* first, in four digits of which the last holds the top 4 bits
MB == 1048576

Zero64 == <<0, 0, 0, 0>>

\* Config.InitDefaults: a limit of 0 becomes 100
DefaultMaxRequestSize(limit) ==
    IF limit = Zero64 THEN <<100, 0, 0, 0>> ELSE limit

\* uint64 product limit*MB: a shift by one digit, the bits above 2^64 lost
MulMB(limit) == <<0, limit[1], limit[2], limit[3] % 16>>

\* int64(x) of a uint64 is negative when bit 63 is set
Int64Negative(x) == x[4] >= 8

\* http.MaxBytesReader(w, body, n): a negative n counts as 0
MaxBytesLimit(x) == IF Int64Negative(x) THEN Zero64 ELSE x

\* a < b for numbers of the same number of digits
NumLess(a, b) ==
    \E i \in 1..Len(a) :
        /\ a[i] < b[i]
        /\ \A j \in (i + 1)..Len(a) : a[j] = b[j]

\* reading the body to its end through the limiter: the bytes returned and
\* whether the reads ended with an error instead of a clean end of stream
ReadThroughLimiter(n, body) ==
    IF NumLess(n, body)
    THEN [stage |-> "read", limit |-> n, n |-> n, err |-> TRUE]
    ELSE [stage |-> "read", limit |-> n, n |-> body, err |-> FALSE]

Limits ==
    { Zero64, <<1, 0, 0, 0>>, <<2, 0, 0, 0>>, <<100, 0, 0, 0>>,
      <<0, 0, 8, 0>>, <<1, 0, 16, 0>>, <<0, 0, 0, 1>>, <<MB - 1, MB - 1, 7, 0>> }

Bodies ==
    { Zero64, <<1, 0, 0, 0>>, <<MB - 1, 0, 0, 0>>, <<0, 1, 0, 0>>,
      <<1, 1, 0, 0>>, <<0, 2, 0, 0>>, <<0, 100, 0, 0>>, <<1, 100, 0, 0>> }

NotRead == [stage |-> "none", limit |-> Zero64, n |-> Zero64, err |-> FALSE]

bodyOthers == <<lsnVars, plugVars, hndVars, tlsaVars, pkiVars>>

\* MaxRequestSize wraps the body of the cloned request; nothing is read
BodyWrap ==
    /\ bRead.stage = "none"
    /\ bRead' = [NotRead EXCEPT
                    !.stage = "wrapped",
                    !.limit = MaxBytesLimit(MulMB(DefaultMaxRequestSize(bLimit)))]
    /\ UNCHANGED <<bLimit, bBody, bodyOthers>>

\* the inner handler reads the body to its end
BodyRead ==
    /\ bRead.stage = "wrapped"
    /\ bRead' = ReadThroughLimiter(bRead.limit, bBody)
    /\ UNCHANGED <<bLimit, bBody, bodyOthers>>

BodyIdle ==
    /\ bLimit = Zero64
    /\ bBody = Zero64
    /\ bRead = NotRead

BodyInit ==
    /\ bLimit \in Limits
    /\ bBody \in Bodies
    /\ bRead = NotRead

\* ------------------------------------------------------------------------
\* The address-port rewrite: middleware.TLSAddr and https tlsAddr
\* ------------------------------------------------------------------------
RECURSIVE Itoa(_)
Itoa(n) ==
    IF n < 10 THEN <<DecChars[n + 1]>>
    ELSE Itoa(n \div 10) \o <<DecChars[(n % 10) + 1]>>

\* fmt's %v of an int
FormatInt(p) == IF p < 0 THEN <<"-">> \o Itoa(0 - p) ELSE Itoa(p)

\* variant: the port is appended without removing the current one
TLSAddrKeepsPort(host, forcePort, sslPort) ==
    IF forcePort \/ sslPort # 443
    THEN host \o <<":">> \o FormatInt(sslPort)
    ELSE host
TLSAddr(host, forcePort, sslPort) ==
    LET h == Split(host, <<":">>)[1] IN
    IF forcePort \/ sslPort # 443
    THEN h \o <<":">> \o FormatInt(sslPort)
    ELSE h

tlsAddr(host, forcePort, sslPort) ==
    LET h == Split(host, <<":">>)[1] IN
    IF forcePort \/ sslPort # 443
    THEN h \o <<":">> \o FormatInt(sslPort)
    ELSE h

TlsHosts == { t \o p : t \in Targets, p \in Ports }
TlsPorts == {443, 80, 8443, 0, -1}

NoRewrite ==
    [done |-> FALSE, once |-> <<>>, twice |-> <<>>,
     oncePriv |-> <<>>, twicePriv |-> <<>>]

tlsaOthers == <<lsnVars, plugVars, hndVars, bodyVars, pkiVars>>

\* the rewrite is applied to the arguments, and again to its own result
TlsRewrite ==
    /\ ~tlsOut.done
    /\ LET a == TLSAddr(tlsIn.host, tlsIn.force, tlsIn.port)
           b == tlsAddr(tlsIn.host, tlsIn.force, tlsIn.port)
       IN tlsOut' = [done |-> TRUE,
                     once |-> a,
                     twice |-> TLSAddr(a, tlsIn.force, tlsIn.port),
                     oncePriv |-> b,
                     twicePriv |-> tlsAddr(b, tlsIn.force, tlsIn.port)]
    /\ UNCHANGED <<tlsIn, tlsaOthers>>

TlsaIdle ==
    /\ tlsIn = [host |-> <<>>, force |-> FALSE, port |-> 443]
    /\ tlsOut = NoRewrite

TlsaInit ==
    /\ tlsIn \in [host : TlsHosts, force : BOOLEAN, port : TlsPorts]
    /\ tlsOut = NoRewrite

\* ------------------------------------------------------------------------
\* Configuration defaulting in Plugin.Init and the construction of the
\* HTTPS server in Serve: ACME validation, the client-CA pool
\* ------------------------------------------------------------------------
\* The configuration and what its construction meets in the environment:
\*   load      cfg.Has and cfg.UnmarshalKey in Plugin.Init: "ok", "absent"
\*             (no section for the plugin) or "unmarshalFails"
\*   address   cfg.Address ("" when plain HTTP is not configured)
\*   http2     the HTTP2 block: "absent", "disabled", "enabled", or
\*             "defaultsFail" (its InitDefaults returns an error) or
\*             "configureFail" (enabled, and initHTTP2 returns an error)
\*   present   the SSL block is configured
\*   keyCert   a key or certificate path is configured
\*   validOK   SSLConfig.Valid accepts the block
\*   acme      the ACME block is configured; email, domains: its fields
\*   issueOK   certificate issuance succeeds
\*   rootCA    a trust-root path is configured; rootFile: what is there
\*   sysPool   x509.SystemCertPool(): "pool", "error" or "nil"
\*   authType  the configured client-auth mode
AuthTypes ==
    {"NoClientCert", "RequestClientCert", "RequireAnyClientCert",
     "VerifyClientCertIfGiven", "RequireAndVerifyClientCert", "bogus"}

\* values of cfg.Address: not set, without a colon, host:port
CfgAddresses ==
    { <<>>,
      <<"l", "o", "c", "a", "l", "h", "o", "s", "t">>,
      <<":", "8", "0", "8", "0">> }

Http2Blocks ==
    {"absent", "disabled", "enabled", "defaultsFail", "configureFail"}

DefaultConfig ==
    [load |-> "ok", address |-> <<":", "8", "0", "8", "0">>,
     http2 |-> "absent", present |-> FALSE, keyCert |-> FALSE,
     validOK |-> TRUE, acme |-> FALSE, email |-> <<>>,
     domains |-> <<>>, issueOK |-> TRUE, rootCA |-> FALSE,
     rootFile |-> "valid", sysPool |-> "pool",
     authType |-> "NoClientCert"]

\* every configuration that is loaded, and the default one for a load that
\* fails (nothing of it is read then)
SslConfigs ==
    [load : {"ok"}, address : CfgAddresses, http2 : Http2Blocks,
     present : BOOLEAN, keyCert : BOOLEAN,
     validOK : BOOLEAN, acme : BOOLEAN,
     email : {<<>>, <<"m">>}, domains : {<<>>, <<"d">>},
     issueOK : BOOLEAN, rootCA : BOOLEAN,
     rootFile : {"unreadable", "nopem", "valid"},
     sysPool : {"pool", "error", "nil"},
     authType : AuthTypes]
    \cup {[DefaultConfig EXCEPT !.load = l] : l \in {"absent", "unmarshalFails"}}

\* variant: the domain list is not checked
AcmeInitDefaultsNoDomainCheck(c) ==
    IF c.email = <<>> THEN "email could not be empty" ELSE "nil"
\* AcmeConfig.InitDefaults: the error it returns
AcmeInitDefaults(c) ==
    IF c.email = <<>> THEN "email could not be empty"
    ELSE IF Len(c.domains) = 0 THEN "should be at least 1 domain"
    ELSE "nil"

\* SSLConfig.EnableACME
EnableACME(c) == c.acme

\* SSLConfig.InitDefaults: defaults the ACME block when there is one
SSLInitDefaults(c) == IF c.acme THEN AcmeInitDefaults(c) ELSE "nil"

\* SSLConfig.Valid
SSLValid(c) == IF c.validOK THEN "nil" ELSE "invalid ssl"

\* HTTP2Config.InitDefaults: the error it returns
HTTP2InitDefaults(c) == IF c.http2 = "defaultsFail" THEN "http2 defaults" ELSE "nil"

\* HTTP2Config.EnableHTTP2
EnableHTTP2(c) == c.http2 \in {"enabled", "configureFail"}

\* initHTTP2: the error it returns
initHTTP2(c) == IF c.http2 = "configureFail" THEN "http2" ELSE "nil"

EnableHTTP(c) == c.address # <<>>

EnableTLS(c) == c.present /\ (c.acme \/ c.keyCert)

\* Config.Valid
ConfigValid(c) ==
    IF ~EnableHTTP(c) /\ ~EnableTLS(c) THEN "no method"
    ELSE IF c.address # <<>> /\ ~InSeq(":", c.address)
    THEN "malformed http server address"
    ELSE IF EnableTLS(c) THEN SSLValid(c)
    ELSE "nil"

\* Config.InitDefaults
ConfigInitDefaults(c) ==
    IF c.http2 # "absent" /\ HTTP2InitDefaults(c) # "nil"
    THEN HTTP2InitDefaults(c)
    ELSE IF c.present /\ SSLInitDefaults(c) # "nil" THEN SSLInitDefaults(c)
    ELSE ConfigValid(c)

\* the *x509.CertPool createCertPool returns, and its error
NoPool == [set |-> FALSE, base |-> "none", custom |-> FALSE]

createCertPool(c) ==
    IF c.sysPool = "error" THEN [pool |-> NoPool, err |-> "nil"]
    ELSE IF c.rootFile = "unreadable" THEN [pool |-> NoPool, err |-> "read"]
    ELSE IF c.rootFile = "nopem"
    THEN [pool |-> NoPool, err |-> "could not append Certs from PEM"]
    ELSE [pool |-> [set |-> TRUE,
                    base |-> IF c.sysPool = "nil" THEN "empty" ELSE "system",
                    custom |-> TRUE],
          err |-> "nil"]

\* the switch over cfg.AuthType
ClientAuthOf(authType) == IF authType = "bogus" THEN "NoClientCert" ELSE authType

\* initTLS: the TLSConfig before the client-CA settings
InitialTLSConf == [clientCAs |-> NoPool, clientAuth |-> "NoClientCert"]

\* NewHTTPSServer: its error, the TLSConfig of the server, and the calls
\* of IssueCertificates it made
NewHTTPSServer(c) ==
    LET cp == createCertPool(c)
        conf == IF c.rootCA /\ cp.pool.set
                THEN [clientCAs |-> cp.pool,
                      clientAuth |-> ClientAuthOf(c.authType)]
                ELSE InitialTLSConf
        call == [email |-> c.email, domains |-> c.domains]
    IN
    IF c.rootCA /\ cp.err # "nil"
    THEN [err |-> cp.err, conf |-> InitialTLSConf, issued |-> <<>>]
    ELSE IF EnableACME(c) /\ ~c.issueOK
    THEN [err |-> "issue", conf |-> conf, issued |-> <<call>>]
    ELSE [err |-> IF c.http2 # "absent" /\ EnableHTTP2(c)
                  THEN initHTTP2(c) ELSE "nil",
          conf |-> conf,
          issued |-> IF EnableACME(c) THEN <<call>> ELSE <<>>]

pkiOthers == <<lsnVars, plugVars, hndVars, bodyVars, tlsaVars>>

\* Plugin.Init: the error it returns
InitResult(c) ==
    IF c.load = "absent" THEN "disabled"
    ELSE IF c.load = "unmarshalFails" THEN "unmarshal"
    ELSE IF ConfigInitDefaults(c) # "nil" THEN ConfigInitDefaults(c)
    ELSE IF ~EnableHTTP(c) /\ ~EnableTLS(c) THEN "disabled"
    ELSE "nil"

\* Plugin.Init: the configuration is loaded, defaulted and validated
PluginInit ==
    /\ cfgPc = "start"
    /\ cfgPc' = IF InitResult(sslCfg) = "nil" THEN "ready" ELSE "initFailed"
    /\ UNCHANGED <<sslCfg, tlsConf, issued, pkiOthers>>

\* Plugin.Serve -> initServers: the HTTPS server is constructed
ServeBuild ==
    /\ cfgPc = "ready"
    /\ IF EnableTLS(sslCfg)
       THEN LET r == NewHTTPSServer(sslCfg) IN
            /\ cfgPc' = IF r.err = "nil" THEN "built" ELSE "buildFailed"
            /\ tlsConf' = r.conf
            /\ issued' = issued \o r.issued
       ELSE /\ cfgPc' = "plain"
            /\ UNCHANGED <<tlsConf, issued>>
    /\ UNCHANGED <<sslCfg, pkiOthers>>

PkiIdle ==
    /\ sslCfg = DefaultConfig
    /\ cfgPc = "start"
    /\ tlsConf = InitialTLSConf
    /\ issued = <<>>

PkiInit ==
    /\ sslCfg \in SslConfigs
    /\ cfgPc = "start"
    /\ tlsConf = InitialTLSConf
    /\ issued = <<>>

AuxIdle == HndIdle /\ BodyIdle /\ TlsaIdle /\ PkiIdle

\* ------------------------------------------------------------------------
\* Specifications
\* ------------------------------------------------------------------------
Configs ==
    {c \in [http : BOOLEAN, tls : BOOLEAN, h2c : BOOLEAN, redirect : BOOLEAN] :
        c.http \/ c.tls}

Orders == UNION {[1..n -> Names] : n \in 0..MaxOrder}

\* the state Init leaves, for a configuration, name list and registry
PlugStart(c, o, m, far) ==
    /\ cfg = c
    /\ order = o
    /\ mdwr = m
    /\ deadlineFar = far
    /\ servers = <<>>
    /\ servePc = "init"
    /\ serveErr = FALSE
    /\ handler = [s \in Servers |-> <<>>]
    /\ startPc = [s \in Servers |-> "none"]
    /\ startI = [s \in Servers |-> 1]
    /\ startErr = [s \in Servers |-> "none"]
    /\ warned = [s \in Servers |-> <<>>]
    /\ applied = [s \in Servers |-> <<>>]
    /\ inShutdown = [s \in Servers |-> FALSE]
    /\ ln = [s \in Servers |-> "none"]
    /\ errCh = <<>>
    /\ muWriter = "none"
    /\ muPending = {}
    /\ muReaders = 0
    /\ collPc = "idle"
    /\ collKind = "none"
    /\ collNames = {}
    /\ collBad = FALSE
    /\ collCalls = 0
    /\ crashed = FALSE
    /\ reqPc = [r \in Requests |-> "none"]
    /\ reqSrv = [r \in Requests |-> "http"]
    /\ stopPc = "idle"
    /\ stopRes = "none"
    /\ stopCalls = 0
    /\ ctxDone = FALSE
    /\ supPc = [k \in StopCallIds |-> "none"]
    /\ supI = [k \in StopCallIds |-> 1]
    /\ doneCh = [k \in StopCallIds |-> 0]

\* Life cycle: Serve, the servers' Start, requests, Plugin.Stop
Init ==
    /\ LsnIdle
    /\ AuxIdle
    /\ pHandler = "collected"
    /\ \E c \in Configs, far \in BOOLEAN :
        /\ ~c.h2c /\ ~c.redirect
        /\ PlugStart(c, <<"a">>, {"a"}, far)

Next == Progress \/ CtxExpire

Spec == Init /\ [][Next]_vars

\* Assembly: Serve and the servers' Start up to the creation of the
\* listener (the life cycle above has what follows it), for every
\* configuration, name list and registry, with registrations that arrive
\* late
InitAsm ==
    /\ LsnIdle
    /\ AuxIdle
    /\ pHandler = "default"
    /\ \E c \in Configs, o \in Orders, m \in SUBSET Names :
        PlugStart(c, o, m, FALSE)

NextAsm ==
    \/ Serve
    \/ \E s \in Servers :
        \/ StartCheck(s)
        \/ StartLookup(s)
        \/ StartLookupFatal(s)
        \/ StartListen(s)
    \/ \E n \in Names : CollectsCall(n)
    \/ \E out \in PanicOutcomes : CollectsManyPanic(out)
    \/ \E ns \in NameSets, bad \in BOOLEAN : CollectsManyCall(ns, bad)
    \/ CollectsHandlerCall
    \/ CollectsLock
    \/ CollectsUnlock
    \/ \E out \in PanicOutcomes : CollectsLoopPanic(out)

SpecAsm == InitAsm /\ [][NextAsm]_vars

\* Listener factory: one call of CreateListener for every address and
\* file-system state
\* the plugin is not in use
PlugIdle ==
    /\ pHandler = "default"
    /\ PlugStart([http |-> TRUE, tls |-> FALSE, h2c |-> FALSE,
                  redirect |-> FALSE], <<>>, {}, FALSE)

InitLsn ==
    /\ LsnInit
    /\ AuxIdle
    /\ PlugIdle

NextLsn == LsnCreate /\ UNCHANGED <<plugVars, auxVars>>

SpecLsn == InitLsn /\ [][NextLsn]_vars

\* Request pipeline: requests pass through lm.Log and MaxRequestSize to an
\* inner handler that writes a status, writes a body, returns or panics
InitHnd ==
    /\ LsnIdle /\ PlugIdle
    /\ HndIdle /\ BodyIdle /\ TlsaIdle /\ PkiIdle

NextHnd ==
    \E q \in HReqs :
        \/ LogEnter(q)
        \/ \E code \in Codes : HWriteHeader(q, code)
        \/ HWrite(q)
        \/ HReturn(q)
        \/ HPanic(q)

SpecHnd == InitHnd /\ [][NextHnd]_vars

\* Size limiter: one body read through the limiter, for every limit and
\* body length
InitBody ==
    /\ LsnIdle /\ PlugIdle
    /\ HndIdle /\ BodyInit /\ TlsaIdle /\ PkiIdle

NextBody == BodyWrap \/ BodyRead

SpecBody == InitBody /\ [][NextBody]_vars

\* Address rewrite: TLSAddr and tlsAddr applied once and twice
InitTlsa ==
    /\ LsnIdle /\ PlugIdle
    /\ HndIdle /\ BodyIdle /\ TlsaInit /\ PkiIdle

NextTlsa == TlsRewrite

SpecTlsa == InitTlsa /\ [][NextTlsa]_vars

\* Construction: Plugin.Init, then the HTTPS server built by Serve, for
\* every SSL block and environment
InitPki ==
    /\ LsnIdle /\ PlugIdle
    /\ HndIdle /\ BodyIdle /\ TlsaIdle /\ PkiInit

NextPki == PluginInit \/ ServeBuild

SpecPki == InitPki /\ [][NextPki]_vars

\* ------------------------------------------------------------------------
\* Properties of the listener factory (SpecLsn)
\* ------------------------------------------------------------------------
LsnDsn == Split(lsnAddress, SchemeSep)

\* the call took the TCP path and reached the choice of the family
LsnTcpChosen == lsnOut.network \in {IPV4, IPV6}

\* the host part of the TCP address the call was given
LsnHost == SplitHostPort(LsnDsn[Len(LsnDsn)]).host

LsnHostForm == ParseIP(LsnHost).form

\* C9: for every TCP address createTCPListener accepts, the family is tcp4
\* when the host is empty, tcp6 when the host is an IPv6 literal, and tcp4
\* when the host is an IPv4 literal or is not an IP literal (a hostname).
C9_FamilyFollowsHost ==
    LsnTcpChosen =>
        /\ LsnHost = <<>> => lsnOut.network = IPV4
        /\ (LsnHost # <<>> /\ LsnHostForm = "v6") => lsnOut.network = IPV6
        /\ (LsnHost # <<>> /\ LsnHostForm # "v6") => lsnOut.network = IPV4

\* the call was given a unix:// address and has returned or panicked
LsnUnixCalled ==
    /\ lsnOut.kind # "none"
    /\ Len(LsnDsn) = 2
    /\ LsnDsn[1] = <<"u", "n", "i", "x">>

LsnUnlinked == InSeq("unlink", lsnOut.ops)
LsnBound == InSeq("bind", lsnOut.ops)

\* C10: for a unix:// address the target is unlinked before the bind if and
\* only if it exists and is not a directory; a directory is never unlinked
\* and the bind then fails; when the unlink fails the call returns that
\* error and nothing is bound.
C10_UnlinkIffExistingNonDir ==
    LsnUnixCalled =>
        /\ LsnUnlinked <=> lsnFs.kind = "file"
        /\ LsnUnlinked /\ LsnBound =>
                Index(lsnOut.ops, <<"unlink">>) < Index(lsnOut.ops, <<"bind">>)
        /\ lsnFs.kind = "dir" =>
                /\ ~LsnUnlinked
                /\ LsnBound
                /\ lsnOut.kind = "error"
        /\ (lsnFs.kind = "file" /\ lsnFs.unlinkErr) =>
                /\ lsnOut.kind = "error"
                /\ lsnOut.err = "unlink"
                /\ ~LsnBound

\* the text of the returned error contains the address the call was given
LsnErrorHasAddress ==
    /\ lsnOut.errHasAddr
    /\ \/ lsnOut.errAddr = lsnAddress
       \/ Index(lsnOut.errAddr, lsnAddress) # 0

\* C11: every error CreateListener returns, whatever its cause (number of
\* scheme separators, unknown scheme, host/port parse failure, unlink
\* failure, bind/listen failure), carries the address string the call was
\* given.
C11_ErrorsCarryAddress == lsnOut.kind = "error" => LsnErrorHasAddress

\* C22: CreateListener is total: for every address and every state of the
\* target (missing, file, directory, or one whose os.Stat fails with an
\* error other than not-exist) the call ends with a listener or with an
\* error value, never with a fault.
C22_CreateListenerTotal ==
    lsnOut.kind \in {"none", "listener", "error"}

\* ------------------------------------------------------------------------
\* Properties of the middleware assembly (SpecAsm)
\* ------------------------------------------------------------------------
\* Start of server s has left its middleware loop and the redirect wrapper
Assembled(s) == startPc[s] \in {"serve", "accept", "send", "done"}

\* no registration has been made since Serve
NoLateRegistration == collCalls = 0

Registered(n) == n \in mdwr
Unregistered(n) == n \notin mdwr

Count(x, sq) == Cardinality({i \in 1..Len(sq) : sq[i] = x})

\* C1 (as stated): once assembled, the chain of a server is, outer to
\* inner: the size limiter, the logger, the named middleware in configured
\* order with the first name outermost, then the h2c wrapper (plain HTTP
\* with h2c enabled) and the plugin's dispatch handler.
C1_ChainAsStated ==
    \A s \in Servers :
        Assembled(s) =>
            handler[s] = <<"MaxRequestSize", "Log">> \o applied[s]
                            \o NewHandler(s, cfg)

\* C1 (amended): once assembled, the chain of a server is the redirect
\* handler alone on the plain HTTP server with redirect enabled; otherwise
\* it is, outer to inner: the named middleware Start found, the LAST
\* configured name outermost, then the logger, then the size limiter, then
\* the h2c wrapper (plain HTTP with h2c enabled) and the plugin's dispatch
\* handler.  With no registration since Serve the names found are the
\* configured names present in the registry, in configured order (none on
\* the HTTPS server when the registry is empty).
C1_ChainAsBuilt ==
    \A s \in Servers :
        Assembled(s) =>
            /\ handler[s] =
                IF s = "http" /\ cfg.redirect THEN <<"Redirect">>
                ELSE Reverse(applied[s]) \o <<"Log", "MaxRequestSize">>
                        \o NewHandler(s, cfg)
            /\ NoLateRegistration =>
                applied[s] = SelectSeq(order, Registered)

\* two different names were found and the chain is assembled around them
C1_Witness ==
    \E s \in Servers :
        /\ Assembled(s)
        /\ applied[s] = <<"a", "b">>
        /\ SubSeq(handler[s], 1, 4) = <<"b", "a", "Log", "MaxRequestSize">>

\* C2: a configured name that is absent from the registry never fails
\* Start; each such name produces one warning and is skipped, and every
\* configured name that is present is applied exactly once, in the order of
\* the configured list, on the HTTP and on the HTTPS server alike, the
\* empty registry included.
C2_AbsentWarnedPresentOnce ==
    \A s \in Servers :
        (Assembled(s) /\ NoLateRegistration) =>
            /\ startErr[s] \in {"none", "listen"}
            /\ warned[s] = SelectSeq(order, Unregistered)
            /\ \A n \in mdwr : InSeq(n, order) => Count(n, applied[s]) = 1
            /\ \A n \in Names \ mdwr : ~InSeq(n, applied[s])
            /\ \A i, j \in 1..Len(applied[s]) :
                    i < j => \E k, l \in 1..Len(order) :
                                /\ k < l
                                /\ order[k] = applied[s][i]
                                /\ order[l] = applied[s][j]

\* a step of Start that reads the registry p.mdwr: the guard of the HTTPS
\* server, a lookup of the loop, or a lookup the runtime ends the process
\* at (the process ends and no goroutine has panicked)
StartReadsRegistry ==
    \E s \in Servers :
        \/ startPc[s] = "check" /\ startPc'[s] # "check"
        \/ /\ startPc[s] = "mw"
           /\ startI[s] <= Len(order)
           /\ \/ startI'[s] # startI[s]
              \/ /\ ~crashed /\ crashed'
                 /\ startPc' = startPc
                 /\ collPc' = collPc

\* C7: every read and write of the registry happens under the plugin's
\* lock: no Start reads the registry while a late Collects is writing it.
C7_NoReadWhileWriting == [][~(Writing /\ StartReadsRegistry)]_vars

\* the redirect wrapper lies inside every layer named in layers
RedirectInnermost(h, layers) ==
    /\ InSeq("Redirect", h)
    /\ \A i \in 1..Len(layers) :
        /\ InSeq(layers[i], h)
        /\ Index(h, <<layers[i]>>) < Index(h, <<"Redirect">>)

\* C17: with HTTPS redirect configured on the plain HTTP server, the
\* redirect wrapper is installed before the listener is created and is the
\* innermost wrapper: the size limiter, the logger and every named
\* middleware still run around each redirected request.
C17_RedirectInnermost ==
    (cfg.redirect /\ Assembled("http")) =>
        RedirectInnermost(handler["http"],
                          <<"MaxRequestSize", "Log">> \o applied["http"])

\* ------------------------------------------------------------------------
\* Properties of the request pipeline (SpecHnd)
\* ------------------------------------------------------------------------
RecordsOf(q) == {i \in 1..Len(records) : records[i].req = q}

\* the level the record of a status is to have
LevelByClass(status) ==
    IF status >= 400 /\ status < 500 THEN "warn"
    ELSE IF status >= 500 /\ status < 600 THEN "error"
    ELSE "info"

\* C12: the access logger emits its record at warning level when the
\* captured status is in [400,500), at error level when it is in
\* [500,600), and at info level for every other status (600 and above and
\* no status captured included).
C12_LevelFollowsStatus ==
    \A i \in 1..Len(records) :
        records[i].level = LevelByClass(records[i].status)

\* C21: the status in a request's log record is the status sent to the
\* client, for every sequence of WriteHeader and Write calls of the inner
\* handler: 200 when the body was written, or the handler returned, with no
\* WriteHeader; the first code when WriteHeader was called several times;
\* never a value left in the pooled wrapper by an earlier request.
C21_RecordedIsSent ==
    \A i \in 1..Len(records) :
        records[i].status = hSent[records[i].req]

\* C13: a request whose inner handler has returned has exactly one log
\* record (a request still running, or one that panicked, has none); the
\* id in that record, the X-Request-ID response header and the id
\* GetRequestID gives for the request the inner handler saw are the same
\* id; two requests never share an id, a wrapper or a record.
C13_OneRecordOneId ==
    /\ \A q \in HReqs :
        IF hPc[q] = "done"
        THEN /\ Cardinality(RecordsOf(q)) = 1
             /\ \A i \in RecordsOf(q) :
                    /\ records[i].id # 0
                    /\ records[i].id = hHeader[q]
                    /\ records[i].id = GetRequestID(hCtxId[q])
        ELSE /\ RecordsOf(q) = {}
             /\ hPc[q] = "inner" =>
                    (hHeader[q] # 0 /\ GetRequestID(hCtxId[q]) = hHeader[q])
    /\ \A q1, q2 \in HReqs :
        (q1 # q2 /\ hId[q1] # 0 /\ hId[q2] # 0) =>
            /\ hId[q1] # hId[q2]
            /\ (hWrap[q1] # 0 /\ hWrap[q2] # 0) => hWrap[q1] # hWrap[q2]

\* two requests were in their inner handlers at the same time and both
\* returned, the one that started later first
C13_Witness ==
    /\ hPc[1] = "done" /\ hPc[2] = "done"
    /\ Len(records) >= 2
    /\ \E i, j \in 1..Len(records) :
        /\ i < j
        /\ records[i].req = 2 /\ records[j].req = 1
        /\ hId[1] < hId[2]

\* ------------------------------------------------------------------------
\* Properties of the size limiter (SpecBody)
\* ------------------------------------------------------------------------
\* the same number written with one more digit
Wide(x) == x \o <<0>>

\* limit x 1 MiB as a number (five digits, nothing lost)
Ceiling == <<0>> \o DefaultMaxRequestSize(bLimit)

\* C14: for every configured limit, a body longer than limit x 1 MiB gives
\* the inner handler at most that many bytes and then an error, never a
\* clean end of stream; a body no longer than that is read completely
\* without error; nothing is checked before the handler reads.
C14_ReadFailsPastCeiling ==
    /\ bRead.stage = "wrapped" => (~bRead.err /\ bRead.n = Zero64)
    /\ bRead.stage = "read" =>
        IF NumLess(Ceiling, Wide(bBody))
        THEN /\ bRead.err
             /\ ~NumLess(Ceiling, Wide(bRead.n))
        ELSE /\ ~bRead.err
             /\ bRead.n = bBody

\* ------------------------------------------------------------------------
\* Properties of the address rewrite (SpecTlsa)
\* ------------------------------------------------------------------------
\* C15: the address-port rewrite is idempotent: for every host (with or
\* without a port, IPv6 literals included), forcePort flag and port,
\* TLSAddr(TLSAddr(h, f, p), f, p) = TLSAddr(h, f, p), and the same for
\* the HTTPS server's tlsAddr.
C15_RewriteIdempotent ==
    tlsOut.done =>
        /\ tlsOut.twice = tlsOut.once
        /\ tlsOut.twicePriv = tlsOut.oncePriv

\* a host that has a port was given another port
C15_Witness ==
    /\ tlsOut.done
    /\ tlsIn.host = <<"a", ".", "i", "o", ":", "8", "0">>
    /\ tlsIn.port = 8443
    /\ tlsOut.once = <<"a", ".", "i", "o", ":", "8", "4", "4", "3">>
    /\ tlsOut.oncePriv = tlsOut.once

\* ------------------------------------------------------------------------
\* Properties of the construction (SpecPki)
\* ------------------------------------------------------------------------
AcmeIncomplete ==
    sslCfg.present /\ sslCfg.acme
        /\ (sslCfg.email = <<>> \/ Len(sslCfg.domains) = 0)

\* C16: an ACME block whose email or domain list is empty is rejected by
\* the configuration defaulting in Plugin.Init, so IssueCertificates is
\* never called with an empty email or an empty domain list.
C16_AcmeRejectedInInit ==
    /\ (AcmeIncomplete /\ cfgPc # "start") => cfgPc = "initFailed"
    /\ \A i \in 1..Len(issued) :
        /\ issued[i].email # <<>>
        /\ Len(issued[i].domains) > 0

\* a complete ACME block passed Init and the certificates were issued
C16_Witness ==
    /\ cfgPc = "built"
    /\ Len(issued) = 1
    /\ issued[1] = [email |-> <<"m">>, domains |-> <<"d">>]

\* C18: when a trust-root path is configured, NewHTTPSServer returns an
\* error, or a server whose TLS configuration has a client-CA pool with
\* the custom root in it and the configured client-auth mode (none for an
\* unrecognized value); when the system pool is unavailable an empty pool
\* is the base.
C18_ClientCAsInstalled ==
    (sslCfg.rootCA /\ cfgPc = "built") =>
        /\ tlsConf.clientCAs.set
        /\ tlsConf.clientCAs.custom
        /\ tlsConf.clientAuth = ClientAuthOf(sslCfg.authType)
        /\ sslCfg.sysPool # "pool" => tlsConf.clientCAs.base = "empty"

\* ------------------------------------------------------------------------
\* Properties of the life cycle (Spec)
\* ------------------------------------------------------------------------
StopRunning == stopPc \in {"lock", "select"}

\* C3: Plugin.Stop(ctx) returns as soon as the stop sequence has completed
\* (nil) or the context is done (ctx.Err()), whichever is first: once the
\* context is done a running Stop can return at once, whatever the requests
\* in flight do (in a process that lives).
C3_StopReturnsOnceCtxDone ==
    /\ (StopRunning /\ ctxDone /\ ~crashed) =>
            ENABLED (StopLock \/ StopSelect)
    /\ (stopPc = "select" /\ doneCh[stopCalls] > 0 /\ ~crashed) =>
            ENABLED StopSelect
    /\ stopPc = "returned" => stopRes \in {"nil", "ctxErr"}
    /\ stopRes = "ctxErr" => ctxDone

\* C4: with a deadline far enough for every handler to finish, Plugin.Stop
\* returns nil before the deadline, in every interleaving of requests and
\* Stop, and leaves no server accepting.
C4_StopReturnsNil ==
    (deadlineFar /\ stopPc = "returned") =>
        /\ stopRes = "nil"
        /\ \A s \in Servers : ln[s] # "serving"

StartFailed(s) == startErr[s] \in {"listen", "tls"}

\* C5: in every interleaving of Start and Stop on a server whose listener
\* and TLS set-up are valid, Start returns nil and the server sends nothing
\* on the error channel: the "server closed" error is never reported, also
\* when Stop runs before Start reaches serve.
C5_ServerClosedNotReported ==
    \A s \in Servers :
        /\ startErr[s] \in {"none", "nil", "listen", "tls"}
        /\ (startPc[s] = "send" \/ InSeq(s, errCh)) => StartFailed(s)
        /\ (startPc[s] = "done" /\ ~StartFailed(s)) => startErr[s] = "nil"

\* Stop ran before Start reached serve; Start returned nil
C5_Witness ==
    \E s \in Servers :
        /\ ln[s] = "refused"
        /\ startPc[s] = "done"
        /\ startErr[s] = "nil"
        /\ ~InSeq(s, errCh)

\* C6: the errors sent on the channel Serve returns never exceed its
\* capacity of 2 nor the number of servers, and are exactly one when the
\* construction of a server failed; no send on the channel blocks.
C6_ErrChNeverBlocks ==
    /\ Len(errCh) <= ErrChCap
    /\ \A s \in Servers : startPc[s] = "send" => Len(errCh) < ErrChCap
    /\ IF serveErr
       THEN servePc = "returned" => Len(errCh) = 1
       ELSE Len(errCh) <= Len(servers)

\* both servers failed and both errors are in the channel
C6_Witness ==
    /\ Len(servers) = 2
    /\ \A s \in Servers : startPc[s] = "done" /\ StartFailed(s)
    /\ Len(errCh) = ErrChCap

\* the state of a server, from the fields of http.Server and where its
\* Start and its connections are
ServerState(s) ==
    IF ~inShutdown[s]
    THEN IF ln[s] = "serving" THEN "Serving" ELSE "Created"
    ELSE IF startPc[s] = "accept" \/ ActiveConns(s) # {}
    THEN "Stopping" ELSE "Stopped"

AcceptsOn(s) ==
    \E r \in Requests : reqPc[r] = "none" /\ reqPc'[r] = "conn" /\ reqSrv'[r] = s

\* C8 (as stated): a server moves Created -> Serving -> Stopping -> Stopped
\* only; Stopping is entered only from Serving, and nothing is accepted
\* after Stop.
C8_StatesAsStated ==
    [][\A s \in Servers :
        /\ \/ ServerState(s)' = ServerState(s)
           \/ <<ServerState(s), ServerState(s)'>> \in
                {<<"Created", "Serving">>, <<"Serving", "Stopping">>,
                 <<"Stopping", "Stopped">>}
        /\ inShutdown[s] => ~AcceptsOn(s)]_vars

\* C8 (amended): a server moves Created -> Serving -> Stopping -> Stopped,
\* or Created -> Stopped when Stop runs before Start reaches serve;
\* Stopping is entered only from Serving and Stopped is never left.  Once
\* Stop was called on a server that does not serve on a listener (its
\* listener is closed, or it never served), the server never serves or
\* accepts again; between the call of Stop and the closing of the
\* listener the accept loop can still accept a connection.
C8_StatesAsBuilt ==
    [][\A s \in Servers :
        /\ \/ ServerState(s)' = ServerState(s)
           \/ <<ServerState(s), ServerState(s)'>> \in
                {<<"Created", "Serving">>, <<"Serving", "Stopping">>,
                 <<"Stopping", "Stopped">>, <<"Created", "Stopped">>}
        /\ (inShutdown[s] /\ ln[s] # "serving") =>
                (ln'[s] # "serving" /\ ~AcceptsOn(s))]_vars

\* one server was stopped while serving, the other before it served
C8_Witness ==
    \E s, t \in Servers :
        /\ ServerState(s) = "Stopped" /\ ln[s] = "closed"
        /\ ServerState(t) = "Stopped" /\ ln[t] = "refused"

\* C19: when Plugin.Stop has lost the race to the deadline and returned
\* ctx.Err(), the goroutine it started keeps running: whatever Stop did, and
\* as long as the process lives, it can call Stop on the next server while
\* one remains and goes on when that server's shutdown is complete; its
\* send on doneCh never finds the buffer full though nobody is left to
\* receive; when it has ended, Stop was called on every server.
C19_SupervisorOutlivesStop ==
    \A k \in StopCallIds :
        /\ (supPc[k] = "stop" /\ supI[k] <= Len(servers)) =>
                (crashed \/ ENABLED SupStop(k))
        /\ supPc[k] = "close" => (crashed \/ ENABLED SupClose(k))
        /\ (supPc[k] = "wait" /\ ShutdownDone(servers[supI[k]])) =>
                (crashed \/ ENABLED SupWait(k))
        /\ (supPc[k] = "stop" /\ supI[k] > Len(servers)) =>
                /\ ~DoneChFull(doneCh[k])
                /\ crashed \/ ENABLED SupSignal(k)
        /\ supPc[k] = "exit" =>
                /\ \A i \in 1..Len(servers) : inShutdown[servers[i]]
                /\ (k = stopCalls /\ stopRes = "ctxErr") => doneCh[k] = 1

\* Stop returned ctx.Err() and its goroutine has ended, its signal left in
\* the buffer of doneCh
C19_Witness ==
    /\ stopPc = "returned"
    /\ stopRes = "ctxErr"
    /\ supPc[stopCalls] = "exit"
    /\ doneCh[stopCalls] = 1
    /\ Len(servers) = 2

\* C20: the number of read locks held on p.mu is the number of requests
\* that are inside Plugin.ServeHTTP between RLock and RUnlock; after a
\* panic of the terminal handler the request's read lock is released, so
\* that Collects and Stop can take the write lock later.
C20_ReadLocksMatchRequests ==
    muReaders = Cardinality(ActiveReaders)

====
